---- MODULE Spec2Model ----
(***************************************************************************)
(* Model of the CSV import dialog of sqlitebrowser                         *)
(* (src/src/ImportCsvDialog.cpp): the dialog's input checks, and accept(), *)
(* which parses the file, derives the column names, resolves the target    *)
(* table and applies the rows to the database under a savepoint.           *)
(*                                                                         *)
(* A QString is a sequence of one-character strings.  The database         *)
(* (DBBrowserDB) and the parser (CSVParser) are collaborators whose code   *)
(* is not part of the file; they are modelled by their contracts.          *)
(***************************************************************************)
EXTENDS Integers, Sequences, FiniteSets, TLC

VARIABLES
    editName,               \* ui->editName->text()
    checkboxHeader,         \* ui->checkboxHeader->isChecked()
    separatorChar,          \* currentSeparatorChar()
    quoteChar,              \* currentQuoteChar()
    okEnabled,              \* whether the Ok button is enabled
    parseCanceled,          \* the parser's progress dialog was cancelled
    pc,                     \* position of accept()
    returnLine,             \* source line at which accept() returned, 0 before
    csv,                    \* csv.csv(): the parsed rows
    fieldList,              \* the generated field names
    importToExistingTable,  \* the local of that name
    it,                     \* the row iterator of the insert loop (1-based)
    cancelRequested,        \* a click on Cancel waiting in the event queue
    wasCanceled,            \* progress.wasCanceled()
    restorepointName,       \* the local of that name
    tables,                 \* the database: name -> [type, fields, rows]
    savepointList,          \* the open savepoints: <<[name, snapshot]>>
    lastErrorMessage,       \* pdb->lastErrorMessage
    calls,                  \* the calls accept() made on the database, in order
    messages,               \* the message boxes shown, in order
    dialogResult,           \* "none", or "Accepted" after QDialog::accept()
    dbBefore                \* the database when accept() was entered

vars == <<editName, checkboxHeader, separatorChar, quoteChar, okEnabled,
          parseCanceled, pc,
          returnLine, csv, fieldList, importToExistingTable, it,
          cancelRequested, wasCanceled, restorepointName, tables,
          savepointList, lastErrorMessage, calls, messages, dialogResult,
          dbBefore>>

\* The variables of the dialog's widgets and of the parser's progress dialog.
uiVars == <<editName, checkboxHeader, separatorChar, quoteChar, okEnabled,
            parseCanceled>>

\* The variables of the database.
dbVars == <<tables, savepointList, lastErrorMessage>>

------------------------------------------------------------------------------
(* Bounds and input sets *)

MaxRows == 2

MaxCols == 2

MaxHeaderLen == 2

MaxFieldLen == 2

MaxAttempts == 2

\* A QString is a sequence of characters, each a TLA+ string; the backtick,
\* which a TLA+ string cannot hold, is written by name.
Backtick == "<backtick>"

\* The character U+0000, written by name.
Nul == "<nul>"

\* The field values the parser yields in the import model.
FieldValues == { <<"a">>, <<"'">> }

\* The characters of a header field in the derivation model.
HeaderChars == { "a", Backtick, " ", "\"", "'", ",", ";" }

\* The table names the user may type.
TableNames == { <<>>, <<"t">>, <<"T">>, <<"t", Backtick>> }

\* The quote characters the user may choose: the double quote, or the
\* character that is the separator. The separator stays the comma.
QuoteChars == { "\"", "," }

------------------------------------------------------------------------------
(* QString helpers *)

\* Mutant of RemoveChar: only the first occurrence of c is removed.
RECURSIVE RemoveFirstChar(_, _)
RemoveFirstChar(s, c) ==
    IF s = <<>> THEN <<>>
    ELSE IF Head(s) = c THEN Tail(s)
         ELSE <<Head(s)>> \o RemoveFirstChar(Tail(s), c)

\* QString::replace(c, ""): every occurrence of the character c removed.
RemoveChar(s, c) == SelectSeq(s, LAMBDA x : x # c)

\* QString::contains(c)
Contains(s, c) == \E i \in 1..Len(s) : s[i] = c

Digit(d) ==
    CASE d = 0 -> "0" [] d = 1 -> "1" [] d = 2 -> "2" [] d = 3 -> "3"
      [] d = 4 -> "4" [] d = 5 -> "5" [] d = 6 -> "6" [] d = 7 -> "7"
      [] d = 8 -> "8" [] d = 9 -> "9"

\* The decimal digits of n >= 0, as QString::arg(n) writes them.
RECURSIVE Decimal(_)
Decimal(n) == IF n < 10 THEN <<Digit(n)>>
              ELSE Append(Decimal(n \div 10), Digit(n % 10))

\* QString("field%1").arg(n)
FieldN(n) == <<"f", "i", "e", "l", "d">> \o Decimal(n)

------------------------------------------------------------------------------
(* Generation of the field names, accept() lines 128-156 *)

\* Mutant of RemoveInvalidChars: the semicolon is not removed.
RemoveInvalidCharsKeepSemicolon(field) ==
    LET r1 == RemoveChar(field, Backtick)
        r2 == RemoveChar(r1, " ")
        r3 == RemoveChar(r2, "\"")
        r4 == RemoveChar(r3, "'")
    IN  RemoveChar(r4, ",")

\* Lines 139-145: the six replace calls, in the order of the code.
RemoveInvalidChars(field) ==
    LET r1 == RemoveChar(field, Backtick)
        r2 == RemoveChar(r1, " ")
        r3 == RemoveChar(r2, "\"")
        r4 == RemoveChar(r3, "'")
        r5 == RemoveChar(r4, ",")
    IN  RemoveChar(r5, ";")

\* Lines 139-151: the name of the field at position pos (1-based) of the
\* first row; std::distance(begin, it) + 1 is pos.
HeaderFieldName(field, pos) ==
    LET thisfield == RemoveInvalidChars(field)
    IN  IF thisfield = <<>> THEN FieldN(pos) ELSE thisfield

\* csv.columns(): the number of columns of the parsed data.
Columns(rows) ==
    IF rows = <<>> THEN 0
    ELSE CHOOSE n \in { Len(rows[i]) : i \in 1..Len(rows) } :
            \A i \in 1..Len(rows) : Len(rows[i]) <= n

\* Lines 129-156: the field list, each entry a sqlb::Field(name, type).
GenerateFieldList(rows, header) ==
    IF header
    THEN [ j \in 1..Len(rows[1]) |->
             [ name |-> HeaderFieldName(rows[1][j], j), type |-> <<>> ] ]
    ELSE [ j \in 1..Columns(rows) |-> [ name |-> FieldN(j), type |-> <<>> ] ]

\* Mutant of ItBegin: the header row is not skipped.
ItBeginNoSkip(header) == 1

\* Lines 130-133: itBegin, as a 1-based index into csv.csv().
ItBegin(header) == IF header THEN 2 ELSE 1

------------------------------------------------------------------------------
(* The insert statement, accept() lines 204-219 *)

\* The C string at the start of the bytes of s: the characters before the
\* first U+0000.
RECURSIVE CString(_)
CString(s) ==
    IF s = <<>> \/ Head(s) = Nul THEN <<>>
    ELSE <<Head(s)>> \o CString(Tail(s))

\* sqlite3_mprintf("%Q", s) of a non-null s: the C string s in single
\* quotes, each single quote of it doubled. toUtf8() is never a null pointer.
RECURSIVE DoubleQuotes(_)
DoubleQuotes(s) ==
    IF s = <<>> THEN <<>>
    ELSE (IF Head(s) = "'" THEN <<"'", "'">> ELSE <<Head(s)>>)
         \o DoubleQuotes(Tail(s))

\* Mutant of FormatQ: the single quotes of s are not doubled.
FormatQWithoutDoubling(s) == <<"'">> \o CString(s) \o <<"'">>

FormatQ(s) == <<"'">> \o DoubleQuotes(CString(s)) \o <<"'">>

\* Mutant of InsertStatement: the values in the reverse order of the fields.
InsertStatementReversed(name, row) ==
    [ table |-> name,
      values |-> [ j \in 1..Len(row) |-> FormatQ(row[Len(row) + 1 - j]) ] ]

\* Lines 204-219: the statement for one row: the table it names and the
\* literals of its VALUES list, in the order of the row's fields.
InsertStatement(name, row) ==
    [ table |-> name, values |-> [ j \in 1..Len(row) |-> FormatQ(row[j]) ] ]

------------------------------------------------------------------------------
(* Input check, checkInput() lines 291-298 *)

\* Mutant of CheckInputValid: only the empty name is refused.
CheckInputOnlyEmpty(name) == name # <<>>

CheckInputValid(name) == ~ (name = <<>> \/ Contains(name, Backtick))

------------------------------------------------------------------------------
(* The database, DBBrowserDB, by its contract *)

\* The diagnostic the engine leaves in lastErrorMessage when a call fails.
SavepointDiagnostic == "cannot open savepoint"

CreateDiagnostic == "cannot create table"

InsertDiagnostic == "cannot insert row"

\* getBrowsableObjects(): the tables and views, each with its name, its type
\* and its number of fields.
BrowsableObjects(tbls) ==
    { [ name |-> n, type |-> tbls[n].type, fieldCount |-> Len(tbls[n].fields) ]
        : n \in DOMAIN tbls }

\* The value of a string literal: the outer quotes dropped, each doubled
\* quote one quote.
RECURSIVE UndoubleQuotes(_)
UndoubleQuotes(s) ==
    IF s = <<>> THEN <<>>
    ELSE IF Len(s) >= 2 /\ s[1] = "'" /\ s[2] = "'"
         THEN <<"'">> \o UndoubleQuotes(Tail(Tail(s)))
         ELSE <<Head(s)>> \o UndoubleQuotes(Tail(s))

LiteralValue(lit) == UndoubleQuotes(SubSeq(lit, 2, Len(lit) - 1))

\* createTable(name, fields) can succeed only for a name not in use and
\* field names that differ.
CanCreateTable(tbls, name, fields) ==
    /\ name \notin DOMAIN tbls
    /\ \A i, j \in 1..Len(fields) : fields[i].name = fields[j].name => i = j

TablesAfterCreate(tbls, name, fields) ==
    (name :> [ type |-> "table", fields |-> fields, rows |-> <<>> ]) @@ tbls

\* An insert can succeed only into a table, with one value per field.
CanInsert(tbls, stmt) ==
    /\ stmt.table \in DOMAIN tbls
    /\ tbls[stmt.table].type = "table"
    /\ Len(stmt.values) = Len(tbls[stmt.table].fields)

TablesAfterInsert(tbls, stmt) ==
    [ tbls EXCEPT ![stmt.table].rows =
        Append(@, [ j \in 1..Len(stmt.values) |-> LiteralValue(stmt.values[j]) ]) ]

\* The open savepoints of a name.
SavepointIndexes(list, name) == { i \in 1..Len(list) : list[i].name = name }

\* setRestorePoint(name), when it succeeds: the savepoint is opened on the
\* database as it is.
SavepointsAfterOpen(list, tbls, name) ==
    Append(list, [ name |-> name, snapshot |-> tbls ])

\* revert(name): the database goes back to what it was when the savepoint was
\* opened, and the savepoint and those opened after it are gone; nothing
\* happens when no savepoint of that name is open.
RevertResult(list, tbls, name) ==
    LET open == SavepointIndexes(list, name)
    IN  IF open = {} THEN [ tables |-> tbls, savepointList |-> list ]
        ELSE LET i == CHOOSE k \in open : \A m \in open : m <= k
             IN  [ tables |-> list[i].snapshot,
                   savepointList |-> SubSeq(list, 1, i - 1) ]

\* The databases the dialog may be opened on: no object of the name t, a
\* table t of some width holding one row, or a view t.
ExistingRow(n) == [ j \in 1..n |-> <<"a">> ]

ExistingFields(n) == [ j \in 1..n |-> [ name |-> FieldN(j), type |-> <<>> ] ]

InitialDatabases ==
    { <<>> } \cup
    { (<<"t">> :> [ type |-> "table", fields |-> ExistingFields(n),
                    rows |-> << ExistingRow(n) >> ]) : n \in 1..MaxCols } \cup
    { (<<"t">> :> [ type |-> "view", fields |-> ExistingFields(1),
                    rows |-> <<>> ]) }

\* What the parser may return: any number of rows up to the bound, all of one
\* width.
CsvResults ==
    UNION { [ 1..r -> [ 1..c -> FieldValues ] ] : r \in 0..MaxRows, c \in 1..MaxCols }

\* QDateTime::currentMSecsSinceEpoch()
ClockReadings == { 0 }

------------------------------------------------------------------------------
(* The dialog *)

Init ==
    /\ editName = <<>>
    /\ checkboxHeader \in BOOLEAN
    /\ separatorChar = ","
    /\ quoteChar = "\""
    /\ okEnabled = CheckInputValid(editName)
    /\ parseCanceled = FALSE
    /\ pc = "idle"
    /\ returnLine = 0
    /\ csv = <<>>
    /\ fieldList = <<>>
    /\ importToExistingTable = FALSE
    /\ it = 0
    /\ cancelRequested = FALSE
    /\ wasCanceled = FALSE
    /\ restorepointName = <<>>
    /\ tables \in InitialDatabases
    /\ savepointList = <<>>
    /\ lastErrorMessage = ""
    /\ calls = <<>>
    /\ messages = <<>>
    /\ dialogResult = "none"
    /\ dbBefore = tables

\* The user edits the table name; the edit runs checkInput().
EditName(n) ==
    /\ pc = "idle"
    /\ n # editName
    /\ editName' = n
    /\ okEnabled' = CheckInputValid(n)
    /\ UNCHANGED <<checkboxHeader, separatorChar, quoteChar, parseCanceled, pc,
                   returnLine,
                   csv, fieldList, importToExistingTable, it, cancelRequested,
                   wasCanceled, restorepointName, tables, savepointList,
                   lastErrorMessage, calls, messages, dialogResult, dbBefore>>

\* The user chooses the quote character.
SetQuoteChar(c) ==
    /\ pc = "idle"
    /\ c # quoteChar
    /\ quoteChar' = c
    /\ UNCHANGED <<editName, checkboxHeader, separatorChar, okEnabled,
                   parseCanceled, pc,
                   returnLine, csv, fieldList, importToExistingTable, it,
                   cancelRequested, wasCanceled, restorepointName, tables,
                   savepointList, lastErrorMessage, calls, messages,
                   dialogResult, dbBefore>>

\* accept() returns: the dialog stays open unless QDialog::accept() ran.
Return(line) ==
    /\ pc' = "done"
    /\ returnLine' = line

\* The message boxes of accept().
MismatchWarning ==
    [ kind |-> "warning",
      text |-> "There is already a table of that name and an import into an existing table is only possible if the number of columns match.",
      args |-> <<>> ]

AppendQuestion ==
    [ kind |-> "question",
      text |-> "There is already a table of that name. Do you want to import the data into it?",
      args |-> <<>> ]

ErrorWarning(message) ==
    [ kind |-> "warning",
      text |-> "Error importing data. Message from database engine: %1",
      args |-> <<message>> ]

\* Mutant of Rollback: the warning is shown and the revert is forgotten.
RollbackWithoutRevert(name, callsNow, tablesNow, errorNow) ==
    /\ messages' = Append(messages, ErrorWarning(errorNow))
    /\ calls' = callsNow
    /\ tables' = tablesNow
    /\ savepointList' = savepointList
    /\ lastErrorMessage' = errorNow

\* rollback(), lines 50-59, run on the database as the failed or cancelled
\* step left it: the warning with the engine's last message, then the revert.
Rollback(name, callsNow, tablesNow, errorNow) ==
    LET r == RevertResult(savepointList, tablesNow, name)
    IN  /\ messages' = Append(messages, ErrorWarning(errorNow))
        /\ calls' = Append(callsNow, [ op |-> "revert", arg |-> name, ok |-> TRUE ])
        /\ tables' = r.tables
        /\ savepointList' = r.savepointList
        /\ lastErrorMessage' = errorNow

\* Mutant of AcceptEmpty: the test of line 125 is missing.
AcceptEmptyGoesOn ==
    /\ pc = "idle"
    /\ okEnabled
    /\ csv' = <<>>
    /\ dbBefore' = tables
    /\ fieldList' = <<>>
    /\ it' = ItBegin(checkboxHeader)
    /\ pc' = "resolve"
    /\ UNCHANGED <<uiVars, dbVars, returnLine, importToExistingTable,
                   cancelRequested, wasCanceled, restorepointName, calls,
                   messages, dialogResult>>

\* Lines 101-126: the file holds no row.
AcceptEmpty ==
    /\ pc = "idle"
    /\ okEnabled
    /\ csv' = <<>>
    /\ dbBefore' = tables
    /\ Return(126)
    /\ UNCHANGED <<uiVars, dbVars, fieldList, importToExistingTable, it,
                   cancelRequested, wasCanceled, restorepointName, calls,
                   messages, dialogResult>>

\* What the parser holds when its progress dialog was cancelled: no row.
CancelledParseResult == <<>>

\* Mutant of AcceptParseCancelled: the test of line 125 is missing, and
\* accept() goes on with what the parser holds.
AcceptParseCancelledGoesOn ==
    /\ pc = "idle"
    /\ okEnabled
    /\ parseCanceled' = TRUE
    /\ csv' = CancelledParseResult
    /\ dbBefore' = tables
    /\ fieldList' = <<>>
    /\ it' = ItBegin(checkboxHeader)
    /\ pc' = "resolve"
    /\ UNCHANGED <<editName, checkboxHeader, separatorChar, quoteChar,
                   okEnabled, dbVars, returnLine, importToExistingTable,
                   cancelRequested, wasCanceled, restorepointName, calls,
                   messages, dialogResult>>

\* Lines 84-90 and 113-126: update() returns false while the file is parsed,
\* the parser stops, and accept(), which does not look at the result of
\* parse(), tests the number of rows the parser holds.
AcceptParseCancelled ==
    /\ pc = "idle"
    /\ okEnabled
    /\ parseCanceled' = TRUE
    /\ csv' = CancelledParseResult
    /\ Len(csv') = 0
    /\ dbBefore' = tables
    /\ Return(126)
    /\ UNCHANGED <<editName, checkboxHeader, separatorChar, quoteChar,
                   okEnabled, dbVars, fieldList, importToExistingTable, it,
                   cancelRequested, wasCanceled, restorepointName, calls,
                   messages, dialogResult>>

\* Lines 101-156: the file is parsed and the field names are generated.
AcceptParse(parsed) ==
    /\ pc = "idle"
    /\ okEnabled
    /\ Len(parsed) # 0
    /\ csv' = parsed
    /\ dbBefore' = tables
    /\ fieldList' = GenerateFieldList(parsed, checkboxHeader)
    /\ it' = ItBegin(checkboxHeader)
    /\ pc' = "resolve"
    /\ UNCHANGED <<uiVars, dbVars, returnLine, importToExistingTable,
                   cancelRequested, wasCanceled, restorepointName, calls,
                   messages, dialogResult>>

\* Mutant of MatchingTables: the type of the object is not looked at.
MatchingTablesOfAnyType ==
    { o \in BrowsableObjects(tables) : o.name = editName }

\* Lines 164-167: the tables of the name in the text field.
MatchingTables ==
    { o \in BrowsableObjects(tables) : o.type = "table" /\ o.name = editName }

GetObjectsCall == [ op |-> "getBrowsableObjects", arg |-> <<>>, ok |-> TRUE ]

\* Lines 162-184, no table of that name: a new table is to be created.
ResolveCreateNew ==
    /\ pc = "resolve"
    /\ MatchingTables = {}
    /\ calls' = Append(calls, GetObjectsCall)
    /\ importToExistingTable' = FALSE
    /\ pc' = "savepoint"
    /\ UNCHANGED <<uiVars, dbVars, returnLine, csv, fieldList, it,
                   cancelRequested, wasCanceled, restorepointName, messages,
                   dialogResult, dbBefore>>

\* Lines 169-173: a table of that name with another number of columns.
ResolveMismatch ==
    /\ pc = "resolve"
    /\ \E o \in MatchingTables : o.fieldCount # Columns(csv)
    /\ calls' = Append(calls, GetObjectsCall)
    /\ messages' = Append(messages, MismatchWarning)
    /\ Return(173)
    /\ UNCHANGED <<uiVars, dbVars, csv, fieldList, importToExistingTable, it,
                   cancelRequested, wasCanceled, restorepointName,
                   dialogResult, dbBefore>>

\* Lines 175-178: a table of that name and width, and the user answers Yes.
ResolveAppend ==
    /\ pc = "resolve"
    /\ \E o \in MatchingTables : o.fieldCount = Columns(csv)
    /\ calls' = Append(calls, GetObjectsCall)
    /\ messages' = Append(messages, AppendQuestion)
    /\ importToExistingTable' = TRUE
    /\ pc' = "savepoint"
    /\ UNCHANGED <<uiVars, dbVars, returnLine, csv, fieldList, it,
                   cancelRequested, wasCanceled, restorepointName,
                   dialogResult, dbBefore>>

\* Mutant of ResolveDeclined: the answer No is handled as a failure, through
\* rollback().
ResolveDeclinedWithRollback ==
    /\ pc = "resolve"
    /\ \E o \in MatchingTables : o.fieldCount = Columns(csv)
    /\ Rollback(restorepointName, Append(calls, GetObjectsCall), tables,
                lastErrorMessage)
    /\ Return(180)
    /\ UNCHANGED <<uiVars, csv, fieldList, importToExistingTable, it,
                   cancelRequested, wasCanceled, restorepointName,
                   dialogResult, dbBefore>>

\* Lines 175-180: a table of that name and width, and the user answers No.
ResolveDeclined ==
    /\ pc = "resolve"
    /\ \E o \in MatchingTables : o.fieldCount = Columns(csv)
    /\ calls' = Append(calls, GetObjectsCall)
    /\ messages' = Append(messages, AppendQuestion)
    /\ Return(180)
    /\ UNCHANGED <<uiVars, dbVars, csv, fieldList, importToExistingTable, it,
                   cancelRequested, wasCanceled, restorepointName,
                   dialogResult, dbBefore>>

\* Line 188: the name of the savepoint.
RestorepointName(msecs) == <<"CSVIMPORT_">> \o Decimal(msecs)

SetRestorePointCall(name, ok) == [ op |-> "setRestorePoint", arg |-> name, ok |-> ok ]

\* Mutant of SetRestorePointOk: the table is created also when the import
\* goes into an existing table.
SetRestorePointOkAlwaysCreate(msecs) ==
    LET name == RestorepointName(msecs)
    IN  /\ pc = "savepoint"
        /\ restorepointName' = name
        /\ savepointList' = SavepointsAfterOpen(savepointList, tables, name)
        /\ calls' = Append(calls, SetRestorePointCall(name, TRUE))
        /\ pc' = "create"
        /\ UNCHANGED <<uiVars, returnLine, csv, fieldList,
                       importToExistingTable, it, cancelRequested, wasCanceled,
                       tables, lastErrorMessage, messages, dialogResult,
                       dbBefore>>

\* Lines 186-190, the savepoint is opened.
SetRestorePointOk(msecs) ==
    LET name == RestorepointName(msecs)
    IN  /\ pc = "savepoint"
        /\ restorepointName' = name
        /\ savepointList' = SavepointsAfterOpen(savepointList, tables, name)
        /\ calls' = Append(calls, SetRestorePointCall(name, TRUE))
        /\ pc' = IF importToExistingTable THEN "rows" ELSE "create"
        /\ UNCHANGED <<uiVars, returnLine, csv, fieldList,
                       importToExistingTable, it, cancelRequested, wasCanceled,
                       tables, lastErrorMessage, messages, dialogResult,
                       dbBefore>>

\* Mutant of SetRestorePointFails: the result of setRestorePoint is not
\* looked at, and accept() goes on without a savepoint.
SetRestorePointFailureIgnored(msecs) ==
    LET name == RestorepointName(msecs)
    IN  /\ pc = "savepoint"
        /\ restorepointName' = name
        /\ calls' = Append(calls, SetRestorePointCall(name, FALSE))
        /\ lastErrorMessage' = SavepointDiagnostic
        /\ pc' = IF importToExistingTable THEN "rows" ELSE "create"
        /\ UNCHANGED <<uiVars, returnLine, csv, fieldList,
                       importToExistingTable, it, cancelRequested, wasCanceled,
                       tables, savepointList, messages, dialogResult,
                       dbBefore>>

\* Lines 186-190, the database cannot open the savepoint.
SetRestorePointFails(msecs) ==
    LET name == RestorepointName(msecs)
    IN  /\ pc = "savepoint"
        /\ restorepointName' = name
        /\ Rollback(name, Append(calls, SetRestorePointCall(name, FALSE)),
                    tables, SavepointDiagnostic)
        /\ Return(190)
        /\ UNCHANGED <<uiVars, csv, fieldList, importToExistingTable, it,
                       cancelRequested, wasCanceled, dialogResult, dbBefore>>

CreateTableCall(ok) ==
    [ op |-> "createTable", arg |-> [ name |-> editName, fields |-> fieldList ],
      ok |-> ok ]

\* Lines 192-197, the table is created.
CreateTableOk ==
    /\ pc = "create"
    /\ CanCreateTable(tables, editName, fieldList)
    /\ tables' = TablesAfterCreate(tables, editName, fieldList)
    /\ calls' = Append(calls, CreateTableCall(TRUE))
    /\ pc' = "rows"
    /\ UNCHANGED <<uiVars, returnLine, csv, fieldList, importToExistingTable,
                   it, cancelRequested, wasCanceled, restorepointName,
                   savepointList, lastErrorMessage, messages, dialogResult,
                   dbBefore>>

\* Lines 192-197, the database refuses to create the table.
CreateTableFails ==
    /\ pc = "create"
    /\ Rollback(restorepointName, Append(calls, CreateTableCall(FALSE)),
                tables, CreateDiagnostic)
    /\ Return(196)
    /\ UNCHANGED <<uiVars, csv, fieldList, importToExistingTable, it,
                   cancelRequested, wasCanceled, restorepointName,
                   dialogResult, dbBefore>>

ExecuteCall(stmt, ok) == [ op |-> "executeSQL", arg |-> stmt, ok |-> ok ]

\* Lines 200-222, the insert of the row at the iterator fails.
InsertFails ==
    LET stmt == InsertStatement(editName, csv[it])
    IN  /\ pc = "rows"
        /\ it <= Len(csv)
        /\ Rollback(restorepointName, Append(calls, ExecuteCall(stmt, FALSE)),
                    tables, InsertDiagnostic)
        /\ Return(222)
        /\ UNCHANGED <<uiVars, csv, fieldList, importToExistingTable, it,
                       cancelRequested, wasCanceled, restorepointName,
                       dialogResult, dbBefore>>

\* Mutant of InsertCancelled: the cancellation is tested before the insert,
\* and the row at the iterator is not inserted.
InsertCancelledBeforeInsert ==
    /\ pc = "rows"
    /\ it <= Len(csv)
    /\ cancelRequested
    /\ cancelRequested' = FALSE
    /\ wasCanceled' = TRUE
    /\ Rollback(restorepointName, calls, tables, lastErrorMessage)
    /\ Return(226)
    /\ UNCHANGED <<uiVars, csv, fieldList, importToExistingTable, it,
                   restorepointName, dialogResult, dbBefore>>

\* Mutant of InsertCancelled: accept() returns on the cancellation without
\* rollback().
InsertCancelledWithoutRollback ==
    LET stmt == InsertStatement(editName, csv[it])
    IN  /\ pc = "rows"
        /\ it <= Len(csv)
        /\ CanInsert(tables, stmt)
        /\ cancelRequested
        /\ cancelRequested' = FALSE
        /\ wasCanceled' = TRUE
        /\ tables' = TablesAfterInsert(tables, stmt)
        /\ calls' = Append(calls, ExecuteCall(stmt, TRUE))
        /\ Return(226)
        /\ UNCHANGED <<uiVars, csv, fieldList, importToExistingTable, it,
                       restorepointName, savepointList, lastErrorMessage,
                       messages, dialogResult, dbBefore>>

\* Lines 200-227, the row is inserted; setValue() lets the waiting click on
\* Cancel through, and the import is rolled back.
InsertCancelled ==
    LET stmt == InsertStatement(editName, csv[it])
    IN  /\ pc = "rows"
        /\ it <= Len(csv)
        /\ CanInsert(tables, stmt)
        /\ cancelRequested
        /\ cancelRequested' = FALSE
        /\ wasCanceled' = TRUE
        /\ Rollback(restorepointName, Append(calls, ExecuteCall(stmt, TRUE)),
                    TablesAfterInsert(tables, stmt), lastErrorMessage)
        /\ Return(226)
        /\ UNCHANGED <<uiVars, csv, fieldList, importToExistingTable, it,
                       restorepointName, dialogResult, dbBefore>>

\* Mutant of InsertContinue: the iterator does not move on.
InsertContinueWithoutAdvance ==
    LET stmt == InsertStatement(editName, csv[it])
    IN  /\ pc = "rows"
        /\ it <= Len(csv)
        /\ CanInsert(tables, stmt)
        /\ ~ cancelRequested
        /\ tables' = TablesAfterInsert(tables, stmt)
        /\ calls' = Append(calls, ExecuteCall(stmt, TRUE))
        /\ it' = it
        /\ UNCHANGED <<uiVars, pc, returnLine, csv, fieldList,
                       importToExistingTable, cancelRequested, wasCanceled,
                       restorepointName, savepointList, lastErrorMessage,
                       messages, dialogResult, dbBefore>>

\* Lines 200-227, the row is inserted and the loop goes on.
InsertContinue ==
    LET stmt == InsertStatement(editName, csv[it])
    IN  /\ pc = "rows"
        /\ it <= Len(csv)
        /\ CanInsert(tables, stmt)
        /\ ~ cancelRequested
        /\ tables' = TablesAfterInsert(tables, stmt)
        /\ calls' = Append(calls, ExecuteCall(stmt, TRUE))
        /\ it' = it + 1
        /\ UNCHANGED <<uiVars, pc, returnLine, csv, fieldList,
                       importToExistingTable, cancelRequested, wasCanceled,
                       restorepointName, savepointList, lastErrorMessage,
                       messages, dialogResult, dbBefore>>

\* Lines 229-231: the loop is over and the dialog is accepted.
Finish ==
    /\ pc = "rows"
    /\ it > Len(csv)
    /\ dialogResult' = "Accepted"
    /\ Return(231)
    /\ UNCHANGED <<uiVars, dbVars, csv, fieldList, importToExistingTable, it,
                   cancelRequested, wasCanceled, restorepointName, calls,
                   messages, dbBefore>>

\* The user clicks Cancel on the progress dialog while rows are inserted.
CancelClick ==
    /\ pc = "rows"
    /\ ~ cancelRequested
    /\ cancelRequested' = TRUE
    /\ UNCHANGED <<uiVars, dbVars, pc, returnLine, csv, fieldList,
                   importToExistingTable, it, wasCanceled, restorepointName,
                   calls, messages, dialogResult, dbBefore>>

Next ==
    \/ \E n \in TableNames : EditName(n)
    \/ \E c \in QuoteChars : SetQuoteChar(c)
    \/ AcceptEmpty
    \/ AcceptParseCancelled
    \/ \E parsed \in CsvResults : AcceptParse(parsed)
    \/ ResolveCreateNew
    \/ ResolveMismatch
    \/ ResolveAppend
    \/ ResolveDeclined
    \/ \E msecs \in ClockReadings : SetRestorePointOk(msecs)
    \/ \E msecs \in ClockReadings : SetRestorePointFails(msecs)
    \/ CreateTableOk
    \/ CreateTableFails
    \/ InsertFails
    \/ InsertCancelled
    \/ InsertContinue
    \/ Finish
    \/ CancelClick

Spec == Init /\ [][Next]_vars

------------------------------------------------------------------------------
(* The generation of the field names on its own: accept() run up to line   *)
(* 156 on a one-row file whose first row holds one field over the          *)
(* characters of HeaderChars.                                              *)

\* The strings over HeaderChars of at most n characters.
RECURSIVE HeaderStrings(_)
HeaderStrings(n) ==
    IF n = 0 THEN { <<>> }
    ELSE LET shorter == HeaderStrings(n - 1)
         IN  shorter \cup { Append(s, c) : s \in shorter, c \in HeaderChars }

\* The first rows: a row over FieldValues with one field replaced.
HeaderRows ==
    { [ row EXCEPT ![j] = s ] :
        row \in UNION { [ 1..c -> FieldValues ] : c \in 1..MaxCols },
        j \in 1..MaxCols, s \in HeaderStrings(MaxHeaderLen) }

InitDerive ==
    /\ editName = <<"t">>
    /\ checkboxHeader \in BOOLEAN
    /\ separatorChar = ","
    /\ quoteChar = "\""
    /\ okEnabled = CheckInputValid(editName)
    /\ parseCanceled = FALSE
    /\ pc = "idle"
    /\ returnLine = 0
    /\ csv = <<>>
    /\ fieldList = <<>>
    /\ importToExistingTable = FALSE
    /\ it = 0
    /\ cancelRequested = FALSE
    /\ wasCanceled = FALSE
    /\ restorepointName = <<>>
    /\ tables = <<>>
    /\ savepointList = <<>>
    /\ lastErrorMessage = ""
    /\ calls = <<>>
    /\ messages = <<>>
    /\ dialogResult = "none"
    /\ dbBefore = tables

NextDerive == \E row \in HeaderRows : AcceptParse(<<row>>)

SpecDerive == InitDerive /\ [][NextDerive]_vars

------------------------------------------------------------------------------
(* The import of one row into a new table, on its own: accept() run on a   *)
(* one-row file without header, one field of the row over LiteralChars,    *)
(* every call on the database succeeding.                                  *)

LiteralChars == { "a", "'", ",", Nul }

NullText == <<"N", "U", "L", "L">>

\* The strings over LiteralChars of at most n characters.
RECURSIVE LiteralStrings(_)
LiteralStrings(n) ==
    IF n = 0 THEN { <<>> }
    ELSE LET shorter == LiteralStrings(n - 1)
         IN  shorter \cup { Append(s, c) : s \in shorter, c \in LiteralChars }

\* The rows: a row over FieldValues with one field replaced.
LiteralRows ==
    { [ row EXCEPT ![j] = s ] :
        row \in UNION { [ 1..c -> FieldValues ] : c \in 1..MaxCols },
        j \in 1..MaxCols,
        s \in LiteralStrings(MaxFieldLen) \cup { NullText } }

InitLiteral == InitDerive /\ ~ checkboxHeader

NextLiteral ==
    \/ \E row \in LiteralRows : AcceptParse(<<row>>)
    \/ ResolveCreateNew
    \/ \E msecs \in ClockReadings : SetRestorePointOk(msecs)
    \/ CreateTableOk
    \/ InsertContinue
    \/ Finish

SpecLiteral == InitLiteral /\ [][NextLiteral]_vars

------------------------------------------------------------------------------
(* Repeated imports: when accept() is over, a new dialog is opened on the  *)
(* same database, up to MaxAttempts runs of accept() in all. The calls     *)
(* made on the database are kept from one run to the next.                 *)

\* What QDateTime::currentMSecsSinceEpoch() may return to a run: the wall
\* clock is read once in each run, and two runs may read the same
\* millisecond.
WallClockReadings == { 0, 1 }

\* The runs of accept() so far: each run that got past line 156 looked up
\* the tables once.
Attempts == Len(SelectSeq(calls, LAMBDA c : c.op = "getBrowsableObjects"))

\* Lines 19-43: a new dialog on the same database.
ExecAgain ==
    /\ pc = "done"
    /\ Attempts < MaxAttempts
    /\ editName' = <<>>
    /\ okEnabled' = CheckInputValid(editName')
    /\ parseCanceled' = FALSE
    /\ pc' = "idle"
    /\ returnLine' = 0
    /\ csv' = <<>>
    /\ fieldList' = <<>>
    /\ importToExistingTable' = FALSE
    /\ it' = 0
    /\ cancelRequested' = FALSE
    /\ wasCanceled' = FALSE
    /\ restorepointName' = <<>>
    /\ messages' = <<>>
    /\ dialogResult' = "none"
    /\ dbBefore' = tables
    /\ UNCHANGED <<checkboxHeader, separatorChar, quoteChar, dbVars, calls>>

InitAgain == InitDerive

NextAgain ==
    \/ \E n \in TableNames : EditName(n)
    \/ \E parsed \in CsvResults : AcceptParse(parsed)
    \/ ResolveCreateNew
    \/ ResolveMismatch
    \/ ResolveAppend
    \/ ResolveDeclined
    \/ \E msecs \in WallClockReadings : SetRestorePointOk(msecs)
    \/ \E msecs \in WallClockReadings : SetRestorePointFails(msecs)
    \/ CreateTableOk
    \/ CreateTableFails
    \/ InsertFails
    \/ InsertContinue
    \/ Finish
    \/ ExecAgain

SpecAgain == InitAgain /\ [][NextAgain]_vars

------------------------------------------------------------------------------
(* Properties *)

\* The data rows: the parsed rows, without the first when it is the header.
DataRows == IF checkboxHeader /\ csv # <<>> THEN Tail(csv) ELSE csv

\* The calls of one operation, in the order they were made.
CallsOf(op) == SelectSeq(calls, LAMBDA c : c.op = op)

Inserts == CallsOf("executeSQL")

LastCall == calls[Len(calls)]

RevertCall == [ op |-> "revert", arg |-> restorepointName, ok |-> TRUE ]

\* accept() opened the savepoint restorepointName.
OpenedSavepoint ==
    \E i \in 1..Len(calls) :
        calls[i] = [ op |-> "setRestorePoint", arg |-> restorepointName, ok |-> TRUE ]

\* The warning of rollback() shown last, and the reason it gives.
ReportedReason == messages[Len(messages)].args[1]

\* C1: when createTable fails, or the insert of a row k fails, accept() makes
\* the revert of the savepoint it opened its next and last call on the
\* database, so no further insert is issued, and the database is what it was
\* before the attempt: no created table and none of the rows 1..k-1 are left.
AtomicityOnStoreFailure ==
    (pc = "done" /\ returnLine \in { 196, 222 }) =>
        /\ OpenedSavepoint
        /\ Len(calls) >= 2
        /\ LastCall = RevertCall
        /\ calls[Len(calls) - 1].ok = FALSE
        /\ calls[Len(calls) - 1].op =
              (IF returnLine = 196 THEN "createTable" ELSE "executeSQL")
        /\ \A i \in 1..(Len(calls) - 2) : calls[i].ok
        /\ Len(CallsOf("revert")) = 1
        /\ tables = dbBefore
        /\ savepointList = <<>>
        /\ dialogResult # "Accepted"

\* C1 witness: the insert of the second row failed after a table was created
\* and the first row was inserted.
AtomicityWitness ==
    /\ pc = "done"
    /\ returnLine = 222
    /\ ~ importToExistingTable
    /\ Len(Inserts) = 2
    /\ Inserts[1].ok
    /\ tables = dbBefore

\* C2: when the cancellation is observed after the insert of row k, k up to
\* the last row, exactly k inserts were issued and none follows, the
\* savepoint is reverted, the dialog is not accepted, and the database holds
\* no row and no table of this import.
CancellationRollsBack ==
    /\ wasCanceled => (pc = "done" /\ returnLine = 226)
    /\ (pc = "done" /\ returnLine = 226) =>
        /\ wasCanceled
        /\ OpenedSavepoint
        /\ LastCall = RevertCall
        /\ Len(CallsOf("revert")) = 1
        /\ Len(Inserts) = it - (IF checkboxHeader THEN 1 ELSE 0)
        /\ Len(Inserts) \in 1..Len(DataRows)
        /\ \A i \in 1..Len(Inserts) : Inserts[i].ok
        /\ calls[Len(calls) - 1].op = "executeSQL"
        /\ dialogResult # "Accepted"
        /\ tables = dbBefore
        /\ savepointList = <<>>

\* C2 witness: the cancellation was observed after the last of two rows.
CancellationWitness ==
    /\ pc = "done"
    /\ returnLine = 226
    /\ Len(DataRows) = 2
    /\ Len(Inserts) = 2
    /\ tables = dbBefore

\* Every data row was inserted, with no error of the database and no
\* cancellation observed.
AllRowsApplied ==
    /\ OpenedSavepoint
    /\ \A i \in 1..Len(calls) : calls[i].ok
    /\ ~ wasCanceled
    /\ Len(Inserts) = Len(DataRows)

SavepointOpen == SavepointIndexes(savepointList, restorepointName) # {}

OrderPreservation ==
    /\ Len(Inserts) <= Len(DataRows)
    /\ \A i \in 1..Len(Inserts) :
        /\ Inserts[i].arg.table = editName
        /\ Len(Inserts[i].arg.values) = Len(DataRows[i])
        /\ \A j \in 1..Len(DataRows[i]) :
              LiteralValue(Inserts[i].arg.values[j]) = DataRows[i][j]
    /\ dialogResult = "Accepted" => Len(Inserts) = Len(DataRows)

\* C4 witness: an accepted import of two different rows, the first of two
\* different fields.
OrderWitness ==
    /\ dialogResult = "Accepted"
    /\ Len(Inserts) = 2
    /\ Len(DataRows) = 2
    /\ DataRows[1] # DataRows[2]
    /\ Len(DataRows[1]) = 2
    /\ DataRows[1][1] # DataRows[1][2]

\* C5, as claimed: an import rolled back on an observed cancellation reports
\* the reason "cancelled", one rolled back on a failed insert reports the
\* diagnostic of that failure, and the reason reported is never empty.
FailureReasonPerPath ==
    (pc = "done" /\ returnLine \in { 190, 196, 222, 226 }) =>
        /\ messages # <<>>
        /\ ReportedReason # ""
        /\ returnLine = 226 => ReportedReason = "cancelled"
        /\ returnLine = 222 => ReportedReason = InsertDiagnostic

\* The table of the name in the text field, in the database accept() found.
TargetExists ==
    editName \in DOMAIN dbBefore /\ dbBefore[editName].type = "table"

ExistingCount == Len(dbBefore[editName].fields)

Resolved == pc \notin { "idle", "resolve" } /\ returnLine # 126

\* What the resolution does without a column count mismatch: with no table
\* of exactly that name a new table is to be created and nothing is asked;
\* with a table of that name and width the user is asked, and the import goes
\* into the table if the answer was Yes and ends if it was No.
ResolutionWithoutMismatch ==
    /\ ~ TargetExists =>
        /\ ~ importToExistingTable
        /\ messages = <<>> \/ messages[1].kind # "question"
        /\ returnLine \notin { 173, 180 }
    /\ (TargetExists /\ ExistingCount = Columns(csv)) =>
        /\ messages # <<>>
        /\ messages[1].kind = "question"
        /\ importToExistingTable <=> returnLine # 180
        /\ returnLine # 173
    /\ (TargetExists /\ ExistingCount # Columns(csv)) =>
        /\ returnLine = 173
        /\ ~ importToExistingTable
        /\ Len(messages) = 1
        /\ messages[1].kind = "warning"

NoPartialActionOnConflict ==
    (pc = "done" /\ returnLine \in { 173, 180 }) =>
        /\ calls = << GetObjectsCall >>
        /\ restorepointName = <<>>
        /\ tables = dbBefore
        /\ savepointList = <<>>
        /\ dialogResult # "Accepted"

\* C7 witness: the user answered No to the question.
ConflictWitness ==
    /\ pc = "done"
    /\ returnLine = 180
    /\ messages = << AppendQuestion >>
    /\ TargetExists

\* C8: accept() runs, and calls the database, only with a table name that is
\* not empty and holds no backtick; with another name the Ok button is
\* disabled and nothing was parsed or called.
TableNamePrecondition ==
    LET bad == editName = <<>> \/ \E i \in 1..Len(editName) : editName[i] = Backtick
    IN  /\ (pc # "idle" \/ calls # <<>>) => ~ bad
        /\ bad => (~ okEnabled /\ pc = "idle" /\ calls = <<>> /\ tables = dbBefore)

\* C8 witness: the user typed a name with a backtick and the Ok button is
\* disabled.
TableNameWitness ==
    /\ Len(editName) = 2
    /\ editName[2] = Backtick
    /\ ~ okEnabled
    /\ pc = "idle"

\* C9, as claimed: accept() goes on to the parser and to the database only
\* with a delimiter that differs from the quote character.
DialectPrecondition ==
    pc # "idle" => separatorChar # quoteChar

\* The characters a column name may not hold.
ForbiddenChars == { Backtick, "\"", "'", ",", ";", " " }

Stripped(field) == SelectSeq(field, LAMBDA c : c \notin ForbiddenChars)

\* The name field<j>, for j below ten.
SyntheticName(j) == <<"f", "i", "e", "l", "d", Digit(j)>>

\* C10: once the field names are generated, with the header flag set there
\* is one name per field of the first row, the j-th being that field
\* without its forbidden characters, or field<j> when nothing is left, so
\* that no name is empty or holds a forbidden character; with the flag clear
\* the names are field1..fieldn for the n columns of the file; every declared
\* type is empty.
ColumnNameDerivation ==
    pc = "resolve" =>
        /\ checkboxHeader =>
            /\ Len(fieldList) = Len(csv[1])
            /\ \A j \in 1..Len(fieldList) :
                /\ fieldList[j].name =
                      (IF Stripped(csv[1][j]) = <<>> THEN SyntheticName(j)
                       ELSE Stripped(csv[1][j]))
                /\ fieldList[j].name # <<>>
                /\ \A k \in 1..Len(fieldList[j].name) :
                      fieldList[j].name[k] \notin ForbiddenChars
        /\ ~ checkboxHeader =>
            /\ Len(fieldList) = Columns(csv)
            /\ \A j \in 1..Len(fieldList) : fieldList[j].name = SyntheticName(j)
        /\ \A j \in 1..Len(fieldList) : fieldList[j].type = <<>>

\* C10 witness: a header of two fields, the first cut down to the one
\* character that is allowed, the second replaced by field2.
ColumnNameWitness ==
    /\ pc = "resolve"
    /\ checkboxHeader
    /\ Len(csv[1]) = 2
    /\ Len(csv[1][1]) = 2
    /\ fieldList[1].name = <<"a">>
    /\ csv[1][2] # <<>>
    /\ fieldList[2].name = SyntheticName(2)


\* C11: the rule that makes a column name of a header field, applied at the
\* same position to a name it has made, returns that name: the name has no
\* forbidden character to remove and is not empty.
SanitizationIdempotent ==
    (pc = "resolve" /\ checkboxHeader) =>
        \A j \in 1..Len(fieldList) :
            /\ RemoveInvalidChars(fieldList[j].name) = fieldList[j].name
            /\ HeaderFieldName(fieldList[j].name, j) = fieldList[j].name

\* C11 witness: a header field of two forbidden characters, made field1, and
\* a second field that lost its quote.
SanitizationWitness ==
    /\ pc = "resolve"
    /\ checkboxHeader
    /\ Len(csv[1]) = 2
    /\ csv[1][1] = <<";", ";">>
    /\ fieldList[1].name = SyntheticName(1)
    /\ csv[1][2] = <<"'">>

\* C12, as claimed: the names of the field list, and so of the list handed
\* to createTable, differ from one another.
ColumnNamesUnique ==
    /\ \A i, j \in 1..Len(fieldList) :
          fieldList[i].name = fieldList[j].name => i = j
    /\ \A k \in 1..Len(calls) :
          calls[k].op = "createTable" =>
              \A i, j \in 1..Len(calls[k].arg.fields) :
                  calls[k].arg.fields[i].name = calls[k].arg.fields[j].name => i = j


\* A call of setRestorePoint that failed.
SavepointOpenFailed ==
    \E i \in 1..Len(calls) : calls[i].op = "setRestorePoint" /\ ~ calls[i].ok

\* What holds when the savepoint cannot be opened, whatever is said of the
\* revert: accept() is over at line 190, the warning shown gives the
\* diagnostic of the database, no createTable and no insert was issued, and
\* the database is unchanged.
SavepointFailureEndsImport ==
    /\ pc = "done"
    /\ returnLine = 190
    /\ messages # <<>>
    /\ ReportedReason = SavepointDiagnostic
    /\ CallsOf("createTable") = <<>>
    /\ Inserts = <<>>
    /\ tables = dbBefore
    /\ savepointList = <<>>
    /\ dialogResult # "Accepted"

\* C13, as claimed: when the savepoint cannot be opened the import fails with
\* the diagnostic of the database, and no revert, createTable or insert is
\* issued.
SavepointFailureIssuesNoRevert ==
    SavepointOpenFailed =>
        /\ SavepointFailureEndsImport
        /\ CallsOf("revert") = <<>>

\* C13, amended: as claimed, but rollback() does issue one revert, of the
\* name of the savepoint that was not opened; it is the call that follows the
\* failed setRestorePoint and the last one, and it changes nothing.
SavepointFailureRevertsNothing ==
    SavepointOpenFailed =>
        /\ SavepointFailureEndsImport
        /\ calls = << GetObjectsCall,
                      SetRestorePointCall(restorepointName, FALSE),
                      RevertCall >>

\* C13 witness: the savepoint could not be opened for an import into the
\* existing table.
SavepointFailureWitness ==
    /\ pc = "done"
    /\ returnLine = 190
    /\ importToExistingTable
    /\ LastCall = RevertCall
    /\ tables = dbBefore

\* C14: a createTable is issued only for a new table, at most once, right
\* after the savepoint was opened and before every insert; an accepted import
\* has made exactly the calls: the reading of the objects, the savepoint, one
\* createTable when the table is new and none when it exists, then one
\* insert per data row.
StoreCallCounts ==
    /\ Len(CallsOf("createTable")) <= (IF importToExistingTable THEN 0 ELSE 1)
    /\ \A i \in 1..Len(calls) :
          calls[i].op = "createTable" =>
              /\ i = 3
              /\ calls[2].op = "setRestorePoint"
              /\ calls[2].ok
    /\ Len(Inserts) <= Len(DataRows)
    /\ dialogResult = "Accepted" =>
        /\ Len(CallsOf("createTable")) = (IF importToExistingTable THEN 0 ELSE 1)
        /\ Len(Inserts) = Len(DataRows)
        /\ Len(calls) = Len(DataRows) + (IF importToExistingTable THEN 2 ELSE 3)
        /\ \A i \in 1..Len(calls) :
              calls[i].op = "executeSQL" <=>
                  i > (IF importToExistingTable THEN 2 ELSE 3)

\* C14 witness: an accepted import of two rows into the existing table.
StoreCallCountsWitness ==
    /\ dialogResult = "Accepted"
    /\ importToExistingTable
    /\ ~ checkboxHeader
    /\ Len(csv) = 2
    /\ Len(calls) = 4


\* The step issued the insert of the row at the iterator, as one whole
\* statement.
InsertedRowAtIterator ==
    /\ Len(Inserts') = Len(Inserts) + 1
    /\ Inserts'[Len(Inserts')].arg.table = editName
    /\ Len(Inserts'[Len(Inserts')].arg.values) = Len(csv[it])
    /\ \A j \in 1..Len(csv[it]) :
          LiteralValue(Inserts'[Len(Inserts')].arg.values[j]) = csv[it][j]

\* C15: the cancellation is observed only in a step that has issued a row's
\* insert and seen it succeed, and every such step tests it, once; with a
\* cancellation requested before or during a row, the next step of accept()
\* still issues that row's whole insert, and only then stops.
CancellationAtRowBoundary ==
    [][ /\ (wasCanceled' /\ ~ wasCanceled) =>
            /\ InsertedRowAtIterator
            /\ Inserts'[Len(Inserts')].ok
            /\ pc' = "done"
            /\ returnLine' = 226
        /\ (cancelRequested /\ pc = "rows" /\ it <= Len(csv)) =>
            /\ InsertedRowAtIterator
            /\ pc' = "done"
            /\ returnLine' = (IF Inserts'[Len(Inserts')].ok THEN 226 ELSE 222)
        /\ (Len(Inserts') > Len(Inserts) /\ Inserts'[Len(Inserts')].ok) =>
            (wasCanceled' <=> cancelRequested)
      ]_vars

\* C15 witness: with a header and two data rows, the cancellation was
\* observed after the first data row was inserted.
RowBoundaryWitness ==
    /\ pc = "done"
    /\ returnLine = 226
    /\ checkboxHeader
    /\ Len(csv) = 2
    /\ it = 2
    /\ Len(Inserts) = 1


RECURSIVE QuotesPaired(_)
QuotesPaired(s) ==
    IF s = <<>> THEN TRUE
    ELSE IF Head(s) # "'" THEN QuotesPaired(Tail(s))
    ELSE Len(s) >= 2 /\ s[2] = "'" /\ QuotesPaired(Tail(Tail(s)))

\* lit is a string literal: in single quotes, every single quote between
\* them doubled.
IsStringLiteral(lit) ==
    /\ Len(lit) >= 2
    /\ lit[1] = "'"
    /\ lit[Len(lit)] = "'"
    /\ QuotesPaired(SubSeq(lit, 2, Len(lit) - 1))

OpenedSavepoints == SelectSeq(calls, LAMBDA c : c.op = "setRestorePoint" /\ c.ok)

\* C18, as claimed: the savepoints opened by the runs of accept() on one
\* database have names that differ from one another.
SavepointNamesDistinct ==
    \A i, j \in 1..Len(OpenedSavepoints) :
        OpenedSavepoints[i].arg = OpenedSavepoints[j].arg => i = j


\* The positions of the calls of one operation.
PositionsOf(op) == { k \in 1..Len(calls) : calls[k].op = op }

\* The calls are in the order of the protocol.
CallsInProtocolOrder ==
    /\ \A k \in PositionsOf("createTable") \cup PositionsOf("executeSQL") :
         /\ \E s \in PositionsOf("setRestorePoint") : s < k /\ calls[s].ok
         /\ \A r \in PositionsOf("revert") : k < r
    /\ \A r, q \in PositionsOf("revert") : r = q
    /\ \A r \in PositionsOf("revert") :
         /\ r = Len(calls)
         /\ pc = "done"
         /\ dialogResult # "Accepted"
    /\ dialogResult = "Accepted" => pc = "done" /\ PositionsOf("revert") = {}

\* The steps accept() has left at most: the rows from the iterator on, and
\* the stages before the loop.
StepsLeft ==
    CASE pc = "done" -> 0
      [] pc = "rows" -> Len(csv) + 2 - it
      [] pc = "create" -> Len(csv) + 2
      [] pc = "savepoint" -> Len(csv) + 3
      [] pc = "resolve" -> Len(csv) + 4
      [] OTHER -> Len(csv) + 5

\* A step of accept() after the parse.
AcceptStep ==
    \/ ResolveCreateNew
    \/ ResolveMismatch
    \/ ResolveAppend
    \/ ResolveDeclined
    \/ \E msecs \in ClockReadings : SetRestorePointOk(msecs)
    \/ \E msecs \in ClockReadings : SetRestorePointFails(msecs)
    \/ CreateTableOk
    \/ CreateTableFails
    \/ InsertFails
    \/ InsertCancelled
    \/ InsertContinue
    \/ Finish

\* C19: the calls are always in the order of the protocol; once accept() has
\* returned nothing changes any more; and while accept() runs it can take a
\* step, every step of it brings the number of steps left down, and the
\* only other step is the one click on Cancel: accept() returns after at
\* most Len(csv) + 4 steps.
ProtocolOrderAndTermination ==
    /\ [](CallsInProtocolOrder /\ StepsLeft \in 0..(Len(csv) + 5))
    /\ [](pc \notin {"idle", "done"} => ENABLED AcceptStep)
    /\ [][ /\ pc = "done" => UNCHANGED vars
           /\ pc \notin {"idle", "done"} =>
                \/ StepsLeft' < StepsLeft
                \/ /\ ~ cancelRequested
                   /\ cancelRequested'
                   /\ UNCHANGED <<pc, it, calls, csv, dbVars>>
         ]_vars

\* C19 witness: a run that created the table, inserted two rows and then
\* reverted.
ProtocolWitness ==
    /\ pc = "done"
    /\ PositionsOf("createTable") = {3}
    /\ PositionsOf("executeSQL") = {4, 5}
    /\ PositionsOf("revert") = {6}


\* C20: a run of accept() whose parser yields no row is over at line 126,
\* and a run that is over at line 126 has made no call on the database, not
\* one setRestorePoint, createTable, insert or revert, has shown no message,
\* has not accepted the dialog, and has left the database as it was.
EmptyInputDoesNothing ==
    /\ (pc # "idle" /\ csv = <<>>) => (pc = "done" /\ returnLine = 126)
    /\ returnLine = 126 =>
         /\ csv = <<>>
         /\ calls = <<>>
         /\ messages = <<>>
         /\ dialogResult # "Accepted"
         /\ tables = dbBefore
         /\ savepointList = <<>>
         /\ lastErrorMessage = ""

\* C20 witness: the parser read a file to its end and yielded no row, for
\* an import into the existing table t.
EmptyInputWitness ==
    /\ pc = "done"
    /\ returnLine = 126
    /\ ~ parseCanceled
    /\ csv = <<>>
    /\ editName \in DOMAIN tables

====
